---- MODULE Spec2Model ----
(***************************************************************************)
(* A model of docs_tester.py: the branch builder                           *)
(* (build_branches_for_language), the executor (execute_code_file) and the *)
(* driver loop (main).                                                     *)
(*                                                                         *)
(* Text is modelled as a sequence of tokens.  The token NL is a newline;   *)
(* every other token is a run of non-whitespace text.  A Python dict is a  *)
(* sequence of [k, v] records in insertion order, so that iteration order  *)
(* is the one the interpreter uses.  A language map (language -> list of   *)
(* snippets) is a function whose domain is the set of keys present.        *)
(***************************************************************************)
EXTENDS Integers, Sequences, FiniteSets, TLC

VARIABLES
    lang,           \* build_branches_for_language: the target language
    steps,          \* the steps the loop of line 153 has consumed so far
    current,        \* the local `current` (branch label -> accumulated code)
    pc,             \* "loop": in the for loop; "returned": after line 203; "idle"
    mdx_files,      \* main: the list find_mdx_files_with_steps returned
    extract_only,   \* main: args.extract_only
    m_pc,           \* main: position ("idle", "files", "langs", "branches", "done", "crashed")
    fi,             \* main: index of the current document in mdx_files
    langs_left,     \* main: languages of all_langs not yet iterated
    cur_lang,       \* main: the `lang` of the loop of line 289
    branches_left,  \* main: entries of branch_map not yet iterated
    clock,          \* the wall clock, in seconds
    written,        \* the files under OUTPUT_DIR: records [path, doc, lang, branch]
    report_lines,   \* main: report_lines
    report_written, \* whether REPORT_FILE was written (line 343)
    exec_res,       \* main: the last exec_res (NoResult before the first)
    crashed_at      \* the call whose exception left main ("none" if none did)

builderVars == <<lang, steps, current, pc>>
mainVars == <<mdx_files, extract_only, m_pc, fi, langs_left, cur_lang,
              branches_left, clock, written, report_lines, report_written,
              exec_res, crashed_at>>
vars == <<lang, steps, current, pc, mdx_files, extract_only, m_pc, fi,
          langs_left, cur_lang, branches_left, clock, written, report_lines,
          report_written, exec_res, crashed_at>>

----------------------------------------------------------------------------
(* Bounds *)

MaxSteps == 3
MaxClock == 1
MaxDocs == 2

----------------------------------------------------------------------------
(* Text *)

NL == "\n"

\* the separator "\n\n"
SEP == <<NL, NL>>

RECURSIVE LStrip(_)
LStrip(s) == IF s # <<>> /\ Head(s) = NL THEN LStrip(Tail(s)) ELSE s

RECURSIVE RStrip(_)
RStrip(s) == IF s # <<>> /\ s[Len(s)] = NL THEN RStrip(SubSeq(s, 1, Len(s) - 1)) ELSE s

\* str.strip()
Strip(s) == RStrip(LStrip(s))

\* "\n\n".join(list)
RECURSIVE Join(_)
Join(list) ==
    IF list = <<>> THEN <<>>
    ELSE IF Len(list) = 1 THEN list[1]
    ELSE list[1] \o SEP \o Join(Tail(list))

----------------------------------------------------------------------------
(* Python dicts, in insertion order *)

Keys(d) == {d[i].k : i \in DOMAIN d}

Has(d, key) == key \in Keys(d)

Get(d, key) == d[CHOOSE i \in DOMAIN d : d[i].k = key].v

\* d[key] = val: an existing key keeps its position, a new one goes last
Put(d, key, val) ==
    IF Has(d, key)
    THEN [i \in DOMAIN d |-> IF d[i].k = key THEN [k |-> key, v |-> val] ELSE d[i]]
    ELSE Append(d, [k |-> key, v |-> val])

----------------------------------------------------------------------------
(* Configuration *)

LANGUAGE_CONFIG ==
    [python |-> [ext |-> ".py", exec_cmd |-> "python"],
     javascript |-> [ext |-> ".js", exec_cmd |-> "node"],
     bash |-> [ext |-> ".sh", exec_cmd |-> "bash"]]

OUTPUT_DIR == "temp_code"

----------------------------------------------------------------------------
(* The parsed documents the model draws its inputs from.  A snippet is the *)
(* dedented, stripped body of one fenced block (extract_code_blocks_into,  *)
(* line 123): it is empty or starts and ends with a non-newline token.  A  *)
(* language key is present only with a non-empty list (line 129), and a    *)
(* tab title is never the empty string (lines 95-96).                      *)

\* a code_map with the given python and bash snippet lists
LangMap(py, sh) ==
    [l \in (IF py # <<>> THEN {"python"} ELSE {}) \cup (IF sh # <<>> THEN {"bash"} ELSE {})
        |-> IF l = "python" THEN py ELSE sh]

Tab(title, py, sh) == [title |-> title, code |-> LangMap(py, sh)]

CommonMaps ==
    { LangMap(<<>>, <<>>),
      LangMap(<< <<"c">> >>, << <<"s">> >>),
      LangMap(<< <<>>, <<"d">> >>, <<>>) }

TabLists ==
    { <<>>,
      << Tab("Linux", << <<"a">> >>, <<>>) >>,
      << Tab("Linux", << <<"a">> >>, <<>>), Tab("Mac", << <<"b">> >>, << <<"t">> >>) >>,
      << Tab("Mac", << <<"b">> >>, <<>>), Tab("Linux", <<>>, << <<"u">> >>) >>,
      << Tab("Linux", << <<>> >>, <<>>) >>,
      << Tab("Mac", <<>>, << <<"t">> >>) >>,
      << Tab("Mac", << <<"b">> >>, <<>>), Tab("Linux", << <<>> >>, <<>>) >> }

StepSet == [common_code : CommonMaps, tabs : TabLists]

TargetLangs == {"python", "bash"}

----------------------------------------------------------------------------
(* build_branches_for_language *)

\* step["common_code"].get(lang, [])
CommonList(step, l) ==
    IF l \in DOMAIN step.common_code THEN step.common_code[l] ELSE <<>>

CombinedCommon(step, l) == Strip(Join(CommonList(step, l)))

\* IsValidTab, asking for a non-empty snippet instead of a non-empty list
IsValidTabStrict(lang_map, l) ==
    /\ l \in DOMAIN lang_map
    /\ \E i \in DOMAIN lang_map[l] : lang_map[l][i] # <<>>

\* lines 160-162: the tab has a non-empty snippet list for the language
IsValidTab(lang_map, l) ==
    /\ l \in DOMAIN lang_map
    /\ lang_map[l] # <<>>

RECURSIVE ValidTabsFrom(_, _, _)
ValidTabsFrom(tabs, l, i) ==
    IF i > Len(tabs) THEN <<>>
    ELSE (IF IsValidTab(tabs[i].code, l)
          THEN << [k |-> tabs[i].title, v |-> Strip(Join(tabs[i].code[l]))] >>
          ELSE <<>>) \o ValidTabsFrom(tabs, l, i + 1)

\* valid_tabs: tab title -> joined, stripped code, in the order of step["tabs"]
ValidTabs(step, l) == ValidTabsFrom(step.tabs, l, 1)

\* AppendCommonTo, assigning where the code appends
AppendCommonOverwrite(code, combined_common) == combined_common

\* lines 169 and 175
AppendCommonTo(code, combined_common) == Strip(code \o SEP \o combined_common)

\* lines 167-169 and 173-175: append the common code to every branch
AppendCommon(cur, combined_common) ==
    IF combined_common # <<>>
    THEN [i \in DOMAIN cur |-> [k |-> cur[i].k, v |-> AppendCommonTo(cur[i].v, combined_common)]]
    ELSE cur

\* line 184
MatchingBranch(code_so_far, tcode) == Strip(code_so_far \o SEP \o tcode)

\* SpawnFromDefault, without the default branch's code
SpawnFromDefaultNoSeed(code_so_far, tcode) == tcode

\* line 188
SpawnFromDefault(code_so_far, tcode) ==
    Strip(code_so_far \o (IF tcode # <<>> THEN SEP \o tcode ELSE <<>>))

\* line 197
FreshBranch(combined_common, tcode) ==
    IF combined_common # <<>> THEN Strip(combined_common \o SEP \o tcode) ELSE tcode

\* TabStep, without lines 190-193 (an unmatched branch is not retained)
TabStepDropUnmatched(acc, branch, code_so_far, tab) ==
    IF tab.k = branch
    THEN [nb |-> Put(acc.nb, tab.k, MatchingBranch(code_so_far, tab.v)),
          used |-> acc.used \cup {tab.k}]
    ELSE IF branch = ""
    THEN [nb |-> Put(acc.nb, tab.k, SpawnFromDefault(code_so_far, tab.v)),
          used |-> acc.used \cup {tab.k}]
    ELSE acc

\* TabStep, also carrying the default branch over at line 188
TabStepKeepDefault(acc, branch, code_so_far, tab) ==
    IF tab.k = branch
    THEN [nb |-> Put(acc.nb, tab.k, MatchingBranch(code_so_far, tab.v)),
          used |-> acc.used \cup {tab.k}]
    ELSE IF branch = ""
    THEN [nb |-> Put(Put(acc.nb, "", code_so_far), tab.k, SpawnFromDefault(code_so_far, tab.v)),
          used |-> acc.used \cup {tab.k}]
    ELSE IF ~Has(acc.nb, branch)
    THEN [nb |-> Put(acc.nb, branch, code_so_far), used |-> acc.used]
    ELSE acc

\* lines 182-193: the body of the inner loop, on acc = [nb, used]
TabStep(acc, branch, code_so_far, tab) ==
    IF tab.k = branch
    THEN [nb |-> Put(acc.nb, tab.k, MatchingBranch(code_so_far, tab.v)),
          used |-> acc.used \cup {tab.k}]
    ELSE IF branch = ""
    THEN [nb |-> Put(acc.nb, tab.k, SpawnFromDefault(code_so_far, tab.v)),
          used |-> acc.used \cup {tab.k}]
    ELSE IF ~Has(acc.nb, branch)
    THEN [nb |-> Put(acc.nb, branch, code_so_far), used |-> acc.used]
    ELSE acc

\* line 181: for ttitle, tcode in valid_tabs.items()
RECURSIVE TabLoop(_, _, _, _, _)
TabLoop(acc, branch, code_so_far, valid_tabs, j) ==
    IF j > Len(valid_tabs) THEN acc
    ELSE TabLoop(TabStep(acc, branch, code_so_far, valid_tabs[j]),
                 branch, code_so_far, valid_tabs, j + 1)

\* line 180: for branch, code_so_far in current.items()
RECURSIVE BranchLoop(_, _, _, _)
BranchLoop(acc, cur, valid_tabs, i) ==
    IF i > Len(cur) THEN acc
    ELSE BranchLoop(TabLoop(acc, cur[i].k, cur[i].v, valid_tabs, 1),
                    cur, valid_tabs, i + 1)

\* lines 195-197: a tab no branch used becomes a fresh branch
RECURSIVE FreshLoop(_, _, _, _, _)
FreshLoop(nb, used, valid_tabs, combined_common, j) ==
    IF j > Len(valid_tabs) THEN nb
    ELSE FreshLoop(IF valid_tabs[j].k \notin used
                   THEN Put(nb, valid_tabs[j].k, FreshBranch(combined_common, valid_tabs[j].v))
                   ELSE nb,
                   used, valid_tabs, combined_common, j + 1)

\* lines 172-198: a step with valid tabs
Reconcile(cur, combined_common, valid_tabs) ==
    LET cur1 == AppendCommon(cur, combined_common)
        acc == BranchLoop([nb |-> <<>>, used |-> {}], cur1, valid_tabs, 1)
    IN FreshLoop(acc.nb, acc.used, valid_tabs, combined_common, 1)

\* StepBranches, testing step["tabs"] at line 165 instead of valid_tabs
StepBranchesRawTabs(cur, step, l) ==
    LET combined_common == CombinedCommon(step, l)
        valid_tabs == ValidTabs(step, l)
    IN IF step.tabs = <<>>
       THEN AppendCommon(cur, combined_common)
       ELSE Reconcile(cur, combined_common, valid_tabs)

\* lines 154-198: one iteration of the loop over the steps
StepBranches(cur, step, l) ==
    LET combined_common == CombinedCommon(step, l)
        valid_tabs == ValidTabs(step, l)
    IN IF valid_tabs = <<>>
       THEN AppendCommon(cur, combined_common)
       ELSE Reconcile(cur, combined_common, valid_tabs)

\* lines 201-202
TrimAll(cur) == [i \in DOMAIN cur |-> [k |-> cur[i].k, v |-> Strip(cur[i].v)]]

\* line 151
InitialBranches == << [k |-> "", v |-> <<>>] >>

RECURSIVE BuildFrom(_, _, _, _)
BuildFrom(cur, ss, l, i) ==
    IF i > Len(ss) THEN TrimAll(cur)
    ELSE BuildFrom(StepBranches(cur, ss[i], l), ss, l, i + 1)

\* the whole function, as main calls it (line 290)
BuildBranches(ss, l) == BuildFrom(InitialBranches, ss, l, 1)

----------------------------------------------------------------------------
(* execute_code_file *)

\* line 219: the timeout in seconds, 0 standing for None
EXEC_TIMEOUT == 30

TimeoutOf(l) == IF l = "bash" THEN 0 ELSE EXEC_TIMEOUT

\* what subprocess.run can do (line 221): return with an exit status, raise
\* TimeoutExpired (its stdout is None when nothing was captured and bytes
\* otherwise, whatever text= says), or raise another exception
RunResults(l) ==
    {"exit_0", "exit_1", "OSError"}
        \cup (IF TimeoutOf(l) # 0 THEN {"TimeoutExpired_None", "TimeoutExpired_bytes"} ELSE {})

\* lines 220-234: the dict returned; output and error are [type, empty]
ExecuteCodeFile(l, run) ==
    CASE run = "exit_0" ->
            [output |-> [type |-> "str", empty |-> FALSE],
             error |-> [type |-> "str", empty |-> TRUE], exit_code |-> 0]
      [] run = "exit_1" ->
            [output |-> [type |-> "str", empty |-> TRUE],
             error |-> [type |-> "str", empty |-> FALSE], exit_code |-> 1]
      [] run = "TimeoutExpired_None" ->
            [output |-> [type |-> "str", empty |-> TRUE],
             error |-> [type |-> "str", empty |-> FALSE], exit_code |-> -1]
      [] run = "TimeoutExpired_bytes" ->
            [output |-> [type |-> "bytes", empty |-> FALSE],
             error |-> [type |-> "str", empty |-> FALSE], exit_code |-> -1]
      [] OTHER ->
            [output |-> [type |-> "str", empty |-> TRUE],
             error |-> [type |-> "str", empty |-> FALSE], exit_code |-> -1]

NoResult == [output |-> [type |-> "str", empty |-> TRUE],
             error |-> [type |-> "str", empty |-> TRUE], exit_code |-> 0]

----------------------------------------------------------------------------
(* main *)

CommonStep(py, sh) == [common_code |-> LangMap(py, sh), tabs |-> <<>>]

\* the documents of the model: path (directory and stem) and parsed steps
DocSet ==
    { [dir |-> "docs/a", stem |-> "setup",
       steps |-> << CommonStep(<< <<"c">> >>, <<>>),
                    [common_code |-> LangMap(<<>>, <<>>),
                     tabs |-> << Tab("Linux", << <<"a">> >>, <<>>),
                                 Tab("Mac", << <<"b">> >>, <<>>) >>] >>],
      [dir |-> "docs/b", stem |-> "setup",
       steps |-> << CommonStep(<< <<"c">> >>, << <<"s">> >>) >>],
      [dir |-> "docs", stem |-> "setup_Linux",
       steps |-> << CommonStep(<< <<"d">> >>, <<>>) >>],
      [dir |-> "docs", stem |-> "empty", steps |-> <<>>] }

\* the file lists find_mdx_files_with_steps can return: distinct paths
FileLists ==
    UNION {{fs \in [1..n -> DocSet] : \A i, j \in 1..n : i # j => fs[i] # fs[j]}
           : n \in 0..MaxDocs}

MdxPath(doc) == doc.dir \o "/" \o doc.stem \o ".mdx"

\* Path(mdx_file).stem
BaseName(doc) == doc.stem

Digit == <<"0", "1", "2", "3", "4", "5", "6", "7", "8", "9">>

\* strftime("%Y-%m-%d_%H-%M-%S") of the second t of the run
StrfTime(t) == "2024-01-01_00-00-" \o Digit[(t \div 10) + 1] \o Digit[(t % 10) + 1]

\* lines 293-300
OutPath(doc, branch_name, t, l) ==
    OUTPUT_DIR \o "/" \o
        (IF branch_name # ""
         THEN BaseName(doc) \o "_" \o branch_name \o "_" \o StrfTime(t) \o LANGUAGE_CONFIG[l].ext
         ELSE BaseName(doc) \o "_" \o StrfTime(t) \o LANGUAGE_CONFIG[l].ext)

\* lines 282-286
AllLangs(ss) ==
    UNION {DOMAIN ss[i].common_code : i \in DOMAIN ss}
        \cup UNION {UNION {DOMAIN ss[i].tabs[j].code : j \in DOMAIN ss[i].tabs}
                        : i \in DOMAIN ss}

\* lines 246-251
InitialReport(files) ==
    <<"Code Execution Report">> \o (IF files = <<>> THEN <<"No MDX files">> ELSE <<>>)

\* lines 312-333: the lines main adds for an exec_res whose output is text
ResultLines(res) ==
    << IF res.exit_code = 0 THEN "File tested: successful" ELSE "File tested: unsuccessful" >>
        \o << "Output:" >>
        \o (IF res.output.empty THEN << "(No output)" >> ELSE << "output line" >>)
        \o (IF res.error.empty THEN <<>> ELSE << "Errors:", "error line" >>)

MainInit ==
    /\ lang = "python"
    /\ steps = <<>>
    /\ current = InitialBranches
    /\ pc = "idle"
    /\ mdx_files \in FileLists
    /\ extract_only \in BOOLEAN
    /\ m_pc = "files"
    /\ fi = 1
    /\ langs_left = {}
    /\ cur_lang = "python"
    /\ branches_left = <<>>
    /\ clock = 0
    /\ written = {}
    /\ report_lines = InitialReport(mdx_files)
    /\ report_written = FALSE
    /\ exec_res = NoResult
    /\ crashed_at = "none"

\* lines 258-265: the document cannot be read
MainReadRaises ==
    /\ m_pc = "files"
    /\ fi <= Len(mdx_files)
    /\ report_lines' = report_lines \o <<"Processing", "Could not read file">>
    /\ fi' = fi + 1
    /\ UNCHANGED <<mdx_files, extract_only, m_pc, langs_left, cur_lang, branches_left,
                   clock, written, report_written, exec_res, crashed_at>>
    /\ UNCHANGED builderVars

\* lines 267-279: no steps in the document
MainSkipNoSteps ==
    /\ m_pc = "files"
    /\ fi <= Len(mdx_files)
    /\ mdx_files[fi].steps = <<>>
    /\ report_lines' = report_lines \o <<"Processing", "No steps found">>
    /\ fi' = fi + 1
    /\ UNCHANGED <<mdx_files, extract_only, m_pc, langs_left, cur_lang, branches_left,
                   clock, written, report_written, exec_res, crashed_at>>
    /\ UNCHANGED builderVars

\* lines 253-286: the document is read and parsed
MainParseFile ==
    /\ m_pc = "files"
    /\ fi <= Len(mdx_files)
    /\ mdx_files[fi].steps # <<>>
    /\ report_lines' = Append(report_lines, "Processing")
    /\ langs_left' = AllLangs(mdx_files[fi].steps)
    /\ m_pc' = "langs"
    /\ UNCHANGED <<mdx_files, extract_only, fi, cur_lang, branches_left,
                   clock, written, report_written, exec_res, crashed_at>>
    /\ UNCHANGED builderVars

\* lines 289-290: the next language of the set, in any order
MainNextLang ==
    /\ m_pc = "langs"
    /\ \E l \in langs_left :
        /\ cur_lang' = l
        /\ langs_left' = langs_left \ {l}
        /\ branches_left' = BuildBranches(mdx_files[fi].steps, l)
    /\ m_pc' = "branches"
    /\ UNCHANGED <<mdx_files, extract_only, fi, clock, written, report_lines,
                   report_written, exec_res, crashed_at>>
    /\ UNCHANGED builderVars

\* line 301: os.makedirs raises
MainMakedirsRaises ==
    /\ m_pc = "branches"
    /\ branches_left # <<>>
    /\ m_pc' = "crashed"
    /\ crashed_at' = "makedirs"
    /\ UNCHANGED <<mdx_files, extract_only, fi, langs_left, cur_lang, branches_left,
                   clock, written, report_lines, report_written, exec_res>>
    /\ UNCHANGED builderVars

\* lines 303-304: open or write raises
MainWriteRaises ==
    /\ m_pc = "branches"
    /\ branches_left # <<>>
    /\ m_pc' = "crashed"
    /\ crashed_at' = "write"
    /\ UNCHANGED <<mdx_files, extract_only, fi, langs_left, cur_lang, branches_left,
                   clock, written, report_lines, report_written, exec_res>>
    /\ UNCHANGED builderVars

\* lines 292-308 and 334-337: the file is generated and not executed
MainGenerateOnly ==
    /\ m_pc = "branches"
    /\ branches_left # <<>>
    /\ extract_only
    /\ \E t \in {clock, clock + 1} \cap (0..MaxClock) :
        /\ clock' = t
        /\ written' = written \cup
            {[path |-> OutPath(mdx_files[fi], branches_left[1].k, t, cur_lang),
              doc |-> MdxPath(mdx_files[fi]), lang |-> cur_lang,
              branch |-> branches_left[1].k]}
    /\ report_lines' = report_lines \o <<"File generated", "(Execution skipped)">>
    /\ branches_left' = Tail(branches_left)
    /\ UNCHANGED <<mdx_files, extract_only, m_pc, fi, langs_left, cur_lang,
                   report_written, exec_res, crashed_at>>
    /\ UNCHANGED builderVars

\* lines 292-333: the file is generated and executed, and the result reported;
\* line 320 raises TypeError on an output of bytes
MainGenerateAndExecute ==
    /\ m_pc = "branches"
    /\ branches_left # <<>>
    /\ ~extract_only
    /\ \E t \in {clock, clock + 1} \cap (0..MaxClock) :
        /\ clock' = t
        /\ written' = written \cup
            {[path |-> OutPath(mdx_files[fi], branches_left[1].k, t, cur_lang),
              doc |-> MdxPath(mdx_files[fi]), lang |-> cur_lang,
              branch |-> branches_left[1].k]}
    /\ \E run \in RunResults(cur_lang) :
        LET res == ExecuteCodeFile(cur_lang, run) IN
        /\ exec_res' = res
        /\ IF ~res.output.empty /\ res.output.type = "bytes"
           THEN /\ report_lines' = report_lines \o
                        <<"File generated", "File tested: unsuccessful", "Output:">>
                /\ m_pc' = "crashed"
                /\ crashed_at' = "report"
                /\ UNCHANGED branches_left
           ELSE /\ report_lines' = report_lines \o <<"File generated">> \o ResultLines(res)
                /\ branches_left' = Tail(branches_left)
                /\ UNCHANGED <<m_pc, crashed_at>>
    /\ UNCHANGED <<mdx_files, extract_only, fi, langs_left, cur_lang, report_written>>
    /\ UNCHANGED builderVars

\* lines 339-341: the branches of the language are done
MainLangDone ==
    /\ m_pc = "branches"
    /\ branches_left = <<>>
    /\ report_lines' = Append(report_lines, "divider")
    /\ m_pc' = "langs"
    /\ UNCHANGED <<mdx_files, extract_only, fi, langs_left, cur_lang, branches_left,
                   clock, written, report_written, exec_res, crashed_at>>
    /\ UNCHANGED builderVars

\* line 289: the languages of the document are done
MainFileDone ==
    /\ m_pc = "langs"
    /\ langs_left = {}
    /\ fi' = fi + 1
    /\ m_pc' = "files"
    /\ UNCHANGED <<mdx_files, extract_only, langs_left, cur_lang, branches_left,
                   clock, written, report_lines, report_written, exec_res, crashed_at>>
    /\ UNCHANGED builderVars

\* lines 343-345
MainWriteReport ==
    /\ m_pc = "files"
    /\ fi > Len(mdx_files)
    /\ report_written' = TRUE
    /\ m_pc' = "done"
    /\ UNCHANGED <<mdx_files, extract_only, fi, langs_left, cur_lang, branches_left,
                   clock, written, report_lines, exec_res, crashed_at>>
    /\ UNCHANGED builderVars

MainNext ==
    \/ MainReadRaises
    \/ MainSkipNoSteps
    \/ MainParseFile
    \/ MainNextLang
    \/ MainMakedirsRaises
    \/ MainWriteRaises
    \/ MainGenerateOnly
    \/ MainGenerateAndExecute
    \/ MainLangDone
    \/ MainFileDone
    \/ MainWriteReport

MainSpec == MainInit /\ [][MainNext]_vars

----------------------------------------------------------------------------
(* The builder as a state machine: one action per iteration of the loop of *)
(* line 153, by the branch the iteration takes, and one for the return.    *)

MainIdle ==
    /\ mdx_files = <<>>
    /\ extract_only = FALSE
    /\ m_pc = "idle"
    /\ fi = 1
    /\ langs_left = {}
    /\ cur_lang = "python"
    /\ branches_left = <<>>
    /\ clock = 0
    /\ written = {}
    /\ report_lines = <<>>
    /\ report_written = FALSE
    /\ exec_res = NoResult
    /\ crashed_at = "none"

Init ==
    /\ lang \in TargetLangs
    /\ steps = <<>>
    /\ current = InitialBranches
    /\ pc = "loop"
    /\ MainIdle

\* lines 165-170: the step has no valid tabs for the language
StepNoValidTabs ==
    /\ pc = "loop"
    /\ Len(steps) < MaxSteps
    /\ \E step \in StepSet :
        /\ ValidTabs(step, lang) = <<>>
        /\ steps' = Append(steps, step)
        /\ current' = StepBranches(current, step, lang)
    /\ UNCHANGED <<lang, pc>>
    /\ UNCHANGED mainVars

\* lines 172-198: the step has valid tabs for the language
StepWithValidTabs ==
    /\ pc = "loop"
    /\ Len(steps) < MaxSteps
    /\ \E step \in StepSet :
        /\ ValidTabs(step, lang) # <<>>
        /\ steps' = Append(steps, step)
        /\ current' = StepBranches(current, step, lang)
    /\ UNCHANGED <<lang, pc>>
    /\ UNCHANGED mainVars

\* lines 200-203: the list is exhausted; trim and return
Return ==
    /\ pc = "loop"
    /\ pc' = "returned"
    /\ current' = TrimAll(current)
    /\ UNCHANGED <<lang, steps>>
    /\ UNCHANGED mainVars

Next == StepNoValidTabs \/ StepWithValidTabs \/ Return

Spec == Init /\ [][Next]_vars

----------------------------------------------------------------------------
(* Vocabulary of the properties *)

\* this transition is one iteration of the loop over the steps
Stepped == pc = "loop" /\ steps' # steps

\* the step that iteration consumed
LastStep == steps'[Len(steps')]

\* the titles of the tabs that hold at least one block for the language
VariantNames(step, l) ==
    {step.tabs[i].title : i \in {j \in DOMAIN step.tabs : l \in DOMAIN step.tabs[j].code}}

\* the joined, trimmed code of the tab of that title
VariantCode(step, title, l) ==
    LET i == CHOOSE j \in DOMAIN step.tabs : step.tabs[j].title = title
    IN Strip(Join(step.tabs[i].code[l]))

\* the tab holds at least one non-empty block for the language
HasNonEmptyBlock(lang_map, l) ==
    /\ l \in DOMAIN lang_map
    /\ \E i \in DOMAIN lang_map[l] : lang_map[l][i] # <<>>

NonEmpty(x) == x # <<>>

\* trimmed text a followed, after a blank line, by trimmed text b
Followed(a, b) == IF b = <<>> THEN a ELSE IF a = <<>> THEN b ELSE a \o SEP \o b

\* sub occurs in s as a contiguous run
ContainsSeq(s, sub) ==
    \/ sub = <<>>
    \/ \E i \in 1..(Len(s) - Len(sub) + 1) : SubSeq(s, i, i + Len(sub) - 1) = sub

RECURSIVE AllCommonBlocks(_, _)
AllCommonBlocks(ss, l) ==
    IF ss = <<>> THEN <<>> ELSE CommonList(ss[1], l) \o AllCommonBlocks(Tail(ss), l)

PerStepCommon(ss, l) == [i \in DOMAIN ss |-> Strip(Join(CommonList(ss[i], l)))]

NoVariants == \A i \in DOMAIN steps : steps[i].tabs = <<>>

OnlyDefault == Len(current) = 1 /\ current[1].k = ""

----------------------------------------------------------------------------
(* C1 *)

\* C1, as stated: with no tabs in any step the result is the single entry ""
\* holding all common blocks of the language, joined by blank lines, trimmed.
C1_AllBlocksJoined ==
    (pc = "returned" /\ NoVariants) =>
        /\ OnlyDefault
        /\ current[1].v = Strip(Join(AllCommonBlocks(steps, lang)))

\* C1, amended: with no tabs in any step the result is the single entry ""
\* holding the blank-line join, in step order, of the non-empty per-step
\* common codes (each the step's blocks joined by blank lines and trimmed);
\* when no common block of the language is empty this is the blank-line join
\* of all the blocks.
C1_DefaultOnly ==
    (pc = "returned" /\ NoVariants) =>
        /\ OnlyDefault
        /\ current[1].v = Join(SelectSeq(PerStepCommon(steps, lang), NonEmpty))
        /\ (\A i \in DOMAIN AllCommonBlocks(steps, lang) :
                AllCommonBlocks(steps, lang)[i] # <<>>)
            => current[1].v = Strip(Join(AllCommonBlocks(steps, lang)))

\* two steps of common code, the second starting with an empty block
C1_Witness ==
    /\ pc = "returned"
    /\ NoVariants
    /\ Len(steps) = 2
    /\ CommonList(steps[1], lang) = << <<"c">> >>
    /\ CommonList(steps[2], lang) = << <<>>, <<"d">> >>
    /\ current = << [k |-> "", v |-> <<"c", NL, NL, "d">>] >>

----------------------------------------------------------------------------
(* C2 *)

\* C2: a step with valid variants, processed while "" is a branch, leaves
\* exactly one branch per valid variant name, each the default branch's code
\* (this step's common code appended) followed by the variant's code, and no
\* branch "".
C2_DivergenceConsumesDefault ==
    [][(Stepped /\ Has(current, "") /\ VariantNames(LastStep, lang) # {}) =>
        LET names == VariantNames(LastStep, lang)
            trunk == Followed(Get(current, ""), Strip(Join(CommonList(LastStep, lang))))
        IN /\ Keys(current') = names
           /\ Len(current') = Cardinality(names)
           /\ "" \notin Keys(current')
           /\ \A t \in names :
                Get(current', t) = Followed(trunk, VariantCode(LastStep, t, lang))]_vars

\* step 1 common only, step 2 offers Linux and Mac
C2_Witness ==
    /\ pc = "loop"
    /\ Len(steps) = 2
    /\ VariantNames(steps[1], lang) = {}
    /\ CommonList(steps[1], lang) = << <<"c">> >>
    /\ CommonList(steps[2], lang) = <<>>
    /\ VariantNames(steps[2], lang) = {"Linux", "Mac"}
    /\ Keys(current) = {"Linux", "Mac"}
    /\ Get(current, "Linux") = <<"c", NL, NL, "a">>
    /\ Get(current, "Mac") = <<"c", NL, NL, "b">>

----------------------------------------------------------------------------
(* C3 *)

\* C3, as stated: a step that offers a valid variant name A with no branch A
\* before it leaves a branch A that holds the common code of every step so
\* far, and every branch of the returned mapping holds the common code of
\* every step.
C3_NewBranchHasAllCommon ==
    [][Stepped =>
        \A A \in VariantNames(LastStep, lang) \ Keys(current) :
            /\ Has(current', A)
            /\ \A i \in DOMAIN steps' :
                ContainsSeq(Get(current', A), Strip(Join(CommonList(steps'[i], lang))))]_vars

----------------------------------------------------------------------------
(* C4 *)

\* C4: a branch with a variant-name label X stays in the mapping at every
\* later step and in the result; a step grows it by exactly its common code
\* plus X's variant code when the step has a valid variant X, and by its
\* common code alone otherwise.
C4_Persistence ==
    [][\A X \in Keys(current) \ {""} :
        /\ Stepped =>
            /\ Has(current', X)
            /\ Get(current', X) =
                Followed(Followed(Get(current, X), Strip(Join(CommonList(LastStep, lang)))),
                         IF X \in VariantNames(LastStep, lang)
                         THEN VariantCode(LastStep, X, lang) ELSE <<>>)
        /\ (pc = "loop" /\ pc' = "returned") =>
            /\ Has(current', X)
            /\ Get(current', X) = Get(current, X)]_vars

\* Linux is created, then a step offers only Mac, then one offers Linux again
C4_Witness ==
    /\ pc = "returned"
    /\ Len(steps) = 3
    /\ "Linux" \in VariantNames(steps[1], lang)
    /\ VariantNames(steps[2], lang) = {"Mac"}
    /\ CommonList(steps[2], lang) # <<>>
    /\ "Linux" \in VariantNames(steps[3], lang)
    /\ Has(current, "Linux")
    /\ Has(current, "Mac")

----------------------------------------------------------------------------
(* C8 *)

\* C8, as stated: the label "" is in the mapping after every step and in the
\* returned mapping.
C8_DefaultNeverRemoved == Has(current, "")

\* C8, amended: the label "" is in the mapping exactly as long as no step so
\* far had a valid variant for the language; from the first such step on, and
\* in the returned mapping, it is absent.
C8_DefaultUntilDivergence ==
    Has(current, "") <=> (\A i \in DOMAIN steps : VariantNames(steps[i], lang) = {})

\* a common step, a diverging step, a third step; no default in the result
C8_Witness ==
    /\ pc = "returned"
    /\ Len(steps) = 3
    /\ VariantNames(steps[1], lang) = {}
    /\ VariantNames(steps[2], lang) # {}
    /\ ~Has(current, "")
    /\ current # <<>>

----------------------------------------------------------------------------
(* C9 *)

\* C9, as stated: a tab is valid only with a non-empty block for the
\* language; a tab without one creates no branch, and a step whose tabs all
\* lack one leaves the set of labels (the default included) as it was.
C9_NonEmptyBlockFilter ==
    [][Stepped =>
        /\ \A i \in DOMAIN LastStep.tabs :
            ~HasNonEmptyBlock(LastStep.tabs[i].code, lang)
                => LastStep.tabs[i].title \notin (Keys(current') \ Keys(current))
        /\ (\A i \in DOMAIN LastStep.tabs : ~HasNonEmptyBlock(LastStep.tabs[i].code, lang))
                => Keys(current') = Keys(current)]_vars

\* C9, amended: a tab is valid exactly when it holds at least one block for
\* the language, empty or not.  A tab with no block for the language creates
\* no branch and appends to none, and a step whose tabs all have no block
\* for the language leaves the set of labels as it was; a tab with only
\* empty blocks is valid: its title is a branch after the step.
C9_ValidVariantFilter ==
    [][Stepped =>
        /\ \A i \in DOMAIN LastStep.tabs :
            LET t == LastStep.tabs[i] IN
            /\ lang \notin DOMAIN t.code =>
                /\ t.title \notin (Keys(current') \ Keys(current))
                /\ Has(current, t.title) =>
                    Get(current', t.title) =
                        Followed(Get(current, t.title), Strip(Join(CommonList(LastStep, lang))))
            /\ lang \in DOMAIN t.code => Has(current', t.title)
        /\ (\A i \in DOMAIN LastStep.tabs : lang \notin DOMAIN LastStep.tabs[i].code)
                => Keys(current') = Keys(current)]_vars

\* a tab with no block for the language left no branch; a later tab with
\* only an empty block made one
C9_Witness ==
    /\ Len(steps) = 2
    /\ Len(steps[1].tabs) = 1
    /\ lang \notin DOMAIN steps[1].tabs[1].code
    /\ Len(steps[2].tabs) = 1
    /\ lang \in DOMAIN steps[2].tabs[1].code
    /\ ~HasNonEmptyBlock(steps[2].tabs[1].code, lang)
    /\ Keys(current) = {steps[2].tabs[1].title}
    /\ steps[1].tabs[1].title \notin Keys(current)

----------------------------------------------------------------------------
(* C10 *)

\* C10: a step with no valid variant for the language leaves the labels of
\* the mapping as they were, and one with no common code either leaves the
\* whole mapping as it was.
C10_FrameNoVariants ==
    [][(Stepped /\ VariantNames(LastStep, lang) = {}) =>
        /\ Len(current') = Len(current)
        /\ \A i \in DOMAIN current : current'[i].k = current[i].k
        /\ CommonList(LastStep, lang) = <<>> => current' = current]_vars

\* two named branches, then a step with tabs but no code for the language
C10_Witness ==
    /\ pc = "loop"
    /\ Len(steps) = 3
    /\ Keys(current) = {"Linux", "Mac"}
    /\ steps[3].tabs # <<>>
    /\ VariantNames(steps[3], lang) = {}
    /\ CommonList(steps[3], lang) = <<>>

----------------------------------------------------------------------------
(* C5 *)

\* C5: an execution that ends in a non-zero exit, a timeout or an exception
\* gives a result with a non-zero exit_code, and main goes on to the
\* remaining branches: it never stops while reporting such a result.
C5_ExecutionFailuresIsolated ==
    exec_res.exit_code # 0 => ~(m_pc = "crashed" /\ crashed_at = "report")

----------------------------------------------------------------------------
(* C6 *)

\* C6: no failure while creating the output directory or writing a
\* generated file leaves main: it is recorded and main goes on.
C6_NoFailureEscapes ==
    m_pc = "crashed" => crashed_at \notin {"makedirs", "write"}

----------------------------------------------------------------------------
(* C7 *)

\* C7: within one run, two different (document, language, branch) triples
\* never get the same output path.
C7_NamesDisambiguate ==
    \A w1, w2 \in written :
        w1.path = w2.path => (w1.doc = w2.doc /\ w1.lang = w2.lang /\ w1.branch = w2.branch)

====
